---- MODULE Spec2Model ----
(***************************************************************************)
(* A model of the NCCA ngl demo programs:                                  *)
(*   - MultiBufferIndexVAO (VertexArrayObject/ExtendedVAOFactory), the     *)
(*     multi-buffer, optionally indexed vertex array object;               *)
(*   - the mouse handlers shared by the VertexArrayObject demo windows;    *)
(*   - the shader loading step of initializeGL in the demos that load      *)
(*     their own shader;                                                   *)
(*   - the ExtendedVAOFactory demo window: initializeGL, timerEvent,       *)
(*     keyPressEvent and paintGL driving that VAO.                         *)
(* OpenGL is modelled by the buffer names in use and the                   *)
(* trace of GL calls issued by the last operation.                         *)
(***************************************************************************)
EXTENDS Integers, Sequences, FiniteSets, TLC

VARIABLES
    \* MultiBufferIndexVAO fields
    m_bound, m_allocated, m_vbo_ids, m_index_buffer_id, m_index_type,
    m_indicesCount,
    \* OpenGL: the buffer names in use, the highest name handed out so far,
    \* and whether this driver hands a deleted name out again
    glBuffers, glLastName, glReusesNames,
    \* the last VAO operation, the GL calls it issued, what it logged/raised
    call, glTrace, logged, raised,
    \* history: a set_data has succeeded since construction / the last remove_vao
    hasData,
    \* MainWindow fields used by the mouse handlers (modelPos in units of
    \* INCREMENT)
    spinXFace, spinYFace, rotate, translate, origX, origY, origXPos, origYPos,
    modelPosX, modelPosY,
    \* the mouse: buttons held, the last event delivered, and whether its
    \* handler called update()
    buttons, evt, updateRequested,
    \* per demo: how far its window got and what initializeGL did
    window,
    \* the ExtendedVAOFactory MainWindow: its drawing index, the GL polygon
    \* mode of its context, the statement it has reached, the handler it ran
    \* last, and (history) the polygon mode last chosen with W or S
    index, polygonMode, pc, handler, selectedMode

vaoVars == <<m_bound, m_allocated, m_vbo_ids, m_index_buffer_id, m_index_type,
             m_indicesCount, glBuffers, glLastName, glReusesNames, call, glTrace,
             logged, raised, hasData>>

winVars == <<spinXFace, spinYFace, rotate, translate, origX, origY, origXPos,
             origYPos, modelPosX, modelPosY, buttons, evt, updateRequested>>

demoVars == <<index, polygonMode, pc, handler, selectedMode>>

vars == <<vaoVars, winVars, window, demoVars>>

-----------------------------------------------------------------------------
(* Bounds *)
MaxBuffers == 2     \* cap on len(m_vbo_ids)
MaxStart   == 1     \* draw: start_index in 0..MaxStart
MaxAmount  == 1     \* draw: amount in -(MaxAmount+1)..MaxAmount
MaxIndices == 2     \* set_indices: len(data) in 0..MaxIndices

MaxX       == 2     \* mouse positions are (x, y) with x in 0..MaxX
MaxY       == 2     \* and y in 0..MaxY
MaxTravel  == 1     \* cap on |spinXFace| + |spinYFace| + |modelPos.x| + |modelPos.y|

\* buffer names glGenBuffers may return (0 is never a generated name)
BufferNames == 1..(MaxBuffers + 1)

SupportedIndexTypes == {"GL_UNSIGNED_INT", "GL_UNSIGNED_SHORT", "GL_UNSIGNED_BYTE"}
\* GL_FLOAT stands for any enum that is not an index type
IndexTypes == SupportedIndexTypes \cup {"GL_FLOAT"}

-----------------------------------------------------------------------------
(* Helpers *)

\* one GL call issued by an operation
GLCall(fn, count, ids, typ, offset) ==
    [fn |-> fn, count |-> count, ids |-> ids, typ |-> typ, offset |-> offset]

\* the arguments of the last operation; fields an operation does not take
\* keep these defaults
NoCall ==
    [op |-> "init", start_index |-> 0, amount |-> 0, isVertexData |-> FALSE,
     indexGiven |-> FALSE, index |-> 0, isList |-> FALSE, len |-> 0,
     index_type |-> "GL_UNSIGNED_SHORT"]

\* ascending sequence of a finite set of integers
RECURSIVE SetToSeq(_)
SetToSeq(S) ==
    IF S = {} THEN <<>>
    ELSE LET m == CHOOSE x \in S : \A y \in S : x <= y
         IN  <<m>> \o SetToSeq(S \ {m})

\* the result of glGenBuffers(n): n distinct names that are not in use.  A
\* driver either hands out the lowest unused names, so that a name freed by
\* glDeleteBuffers comes back, or counts upward and never repeats a name.
GenBuffers(n) ==
    LET unused == IF glReusesNames THEN BufferNames \ glBuffers
                  ELSE { b \in BufferNames : b > glLastName }
        free   == SetToSeq(unused)
    IN  IF Len(free) >= n THEN { SubSeq(free, 1, n) } ELSE {}

\* the highest name handed out once new_ids have been generated
LastName(new_ids) ==
    IF new_ids = <<>> THEN glLastName
    ELSE LET m == new_ids[Len(new_ids)] IN IF m > glLastName THEN m ELSE glLastName

Range(s) == { s[k] : k \in 1..Len(s) }

-----------------------------------------------------------------------------
(* MultiBufferIndexVAO *)

VAOInit ==
    /\ m_bound = FALSE
    /\ m_allocated = FALSE
    /\ m_vbo_ids = <<>>
    /\ m_index_buffer_id = 0
    /\ m_index_type = "GL_UNSIGNED_SHORT"
    /\ m_indicesCount = 0
    /\ glBuffers = {}
    /\ glLastName = 0
    /\ glReusesNames \in BOOLEAN
    /\ call = NoCall
    /\ glTrace = <<>>
    /\ logged = <<>>
    /\ raised = "none"
    /\ hasData = FALSE

\* AbstractVAO.bind, entered by "with self.vao:"
bind ==
    /\ m_bound' = TRUE
    /\ call' = [NoCall EXCEPT !.op = "bind"]
    /\ glTrace' = <<GLCall("glBindVertexArray", 0, <<>>, "m_id", 0)>>
    /\ logged' = <<>>
    /\ raised' = "none"
    /\ UNCHANGED <<m_allocated, m_vbo_ids, m_index_buffer_id, m_index_type,
                   m_indicesCount, glBuffers, glLastName, glReusesNames, hasData>>

\* AbstractVAO.unbind, left by "with self.vao:" and called by remove_vao
unbind ==
    /\ m_bound' = FALSE
    /\ call' = [NoCall EXCEPT !.op = "unbind"]
    /\ glTrace' = <<GLCall("glBindVertexArray", 0, <<>>, "0", 0)>>
    /\ logged' = <<>>
    /\ raised' = "none"
    /\ UNCHANGED <<m_allocated, m_vbo_ids, m_index_buffer_id, m_index_type,
                   m_indicesCount, glBuffers, glLastName, glReusesNames, hasData>>

\* draw as it would be if the start index were left out of the count
DrawCount_IgnoresStart(start_index, amount) ==
    IF amount = -1 THEN m_indicesCount ELSE amount

\* the number of elements draw is asked to draw
DrawCount(start_index, amount) ==
    IF amount = -1 THEN m_indicesCount - start_index ELSE amount

\* the widths as they would be if a short index were taken for four bytes
IndexByteWidth_ShortAsInt(t) ==
    CASE t = "GL_UNSIGNED_INT"   -> 4
      [] t = "GL_UNSIGNED_SHORT" -> 4
      [] t = "GL_UNSIGNED_BYTE"  -> 1

\* byte width of an index of a supported type
IndexByteWidth(t) ==
    CASE t = "GL_UNSIGNED_INT"   -> 4
      [] t = "GL_UNSIGNED_SHORT" -> 2
      [] t = "GL_UNSIGNED_BYTE"  -> 1

\* draw as it would be if it only asked for a bound VAO
DrawReady_BoundOnly == m_bound

\* draw may issue GL calls at all
DrawReady == m_bound /\ m_allocated

draw(start_index, amount) ==
    /\ call' = [NoCall EXCEPT !.op = "draw", !.start_index = start_index,
                              !.amount = amount]
    /\ raised' = "none"
    /\ IF DrawReady
       THEN LET count == DrawCount(start_index, amount) IN
            IF count <= 0
            THEN glTrace' = <<>> /\ logged' = <<>>
            ELSE IF m_index_type \in SupportedIndexTypes
            THEN /\ glTrace' = <<GLCall("glDrawElements", count, <<>>, m_index_type,
                                        start_index * IndexByteWidth(m_index_type))>>
                 /\ logged' = <<>>
            ELSE /\ glTrace' = <<>>
                 /\ logged' = <<"Unsupported index type">>
       ELSE /\ glTrace' = <<>>
            /\ logged' = <<"MultiBufferIndexVAO is not bound or not allocated">>
    /\ UNCHANGED <<m_bound, m_allocated, m_vbo_ids, m_index_buffer_id,
                   m_index_type, m_indicesCount, glBuffers, glLastName,
                   glReusesNames, hasData>>

\* set_data as it would be without the check for a bound VAO
SetDataRejected_Never == FALSE

\* set_data refuses to touch the VAO
SetDataRejected == ~m_bound

\* set_data as it would be if the default index were the first buffer
SetDataIndex_First(indexGiven, i) == IF indexGiven THEN i ELSE 0

\* the buffer position set_data uploads into
SetDataIndex(indexGiven, i) == IF indexGiven THEN i ELSE Len(m_vbo_ids)

set_data(isVertexData, indexGiven, i) ==
    LET slot == SetDataIndex(indexGiven, i) IN
    /\ call' = [NoCall EXCEPT !.op = "set_data", !.isVertexData = isVertexData,
                              !.indexGiven = indexGiven, !.index = slot]
    /\ IF ~isVertexData
       THEN /\ raised' = "TypeError"
            /\ logged' = <<"MultiBufferIndexVAO.set_data: data must be of type VertexData">>
            /\ glTrace' = <<>>
            /\ UNCHANGED <<m_bound, m_allocated, m_vbo_ids, m_index_buffer_id,
                           m_index_type, m_indicesCount, glBuffers, glLastName,
                           glReusesNames, hasData>>
       ELSE IF SetDataRejected
       THEN /\ raised' = "none"
            /\ logged' = <<"Trying to set VOA data when unbound">>
            /\ glTrace' = <<>>
            /\ UNCHANGED <<m_bound, m_allocated, m_vbo_ids, m_index_buffer_id,
                           m_index_type, m_indicesCount, glBuffers, glLastName,
                           glReusesNames, hasData>>
       ELSE /\ slot < MaxBuffers
            /\ raised' = "none"
            /\ logged' = <<>>
            /\ IF slot >= Len(m_vbo_ids)
               THEN \E new_ids \in GenBuffers(slot - Len(m_vbo_ids) + 1) :
                      /\ m_vbo_ids' = m_vbo_ids \o new_ids
                      /\ glBuffers' = glBuffers \cup Range(new_ids)
                      /\ glLastName' = LastName(new_ids)
                      /\ glTrace' = <<GLCall("glGenBuffers", Len(new_ids), new_ids, "", 0),
                                      GLCall("glBindBuffer", 0, <<(m_vbo_ids \o new_ids)[slot + 1]>>, "GL_ARRAY_BUFFER", 0),
                                      GLCall("glBufferData", 0, <<>>, "GL_ARRAY_BUFFER", 0)>>
               ELSE /\ UNCHANGED <<m_vbo_ids, glBuffers, glLastName>>
                    /\ glTrace' = <<GLCall("glBindBuffer", 0, <<m_vbo_ids[slot + 1]>>, "GL_ARRAY_BUFFER", 0),
                                    GLCall("glBufferData", 0, <<>>, "GL_ARRAY_BUFFER", 0)>>
            /\ m_allocated' = TRUE
            /\ hasData' = TRUE
            /\ UNCHANGED <<m_bound, m_index_buffer_id, m_index_type,
                           m_indicesCount, glReusesNames>>

\* set_indices as it would be if every call generated an index buffer
NeedsIndexBuffer_Always == TRUE

\* set_indices needs a fresh buffer name for the index buffer
NeedsIndexBuffer == m_index_buffer_id = 0

\* set_indices stores the index type and count (before it looks at the type)
StoredIndexState(len, index_type) ==
    [index_type |-> index_type, indicesCount |-> len]

set_indices(isList, len, index_type) ==
    /\ call' = [NoCall EXCEPT !.op = "set_indices", !.isList = isList,
                              !.len = len, !.index_type = index_type]
    /\ IF ~isList
       THEN /\ raised' = "TypeError"
            /\ logged' = <<"MultiBufferIndexVAO.set_indices: data must be of type List">>
            /\ glTrace' = <<>>
            /\ UNCHANGED <<m_bound, m_allocated, m_vbo_ids, m_index_buffer_id,
                           m_index_type, m_indicesCount, glBuffers, glLastName,
                           glReusesNames, hasData>>
       ELSE IF ~m_bound
       THEN /\ raised' = "none"
            /\ logged' = <<"Trying to set VOA data when unbound">>
            /\ glTrace' = <<>>
            /\ UNCHANGED <<m_bound, m_allocated, m_vbo_ids, m_index_buffer_id,
                           m_index_type, m_indicesCount, glBuffers, glLastName,
                           glReusesNames, hasData>>
       ELSE /\ raised' = "none"
            /\ \E gen \in (IF NeedsIndexBuffer THEN GenBuffers(1) ELSE {<<>>}) :
                 LET id  == IF gen = <<>> THEN m_index_buffer_id ELSE gen[1]
                     pre == IF gen = <<>> THEN <<>>
                            ELSE <<GLCall("glGenBuffers", 1, gen, "", 0)>>
                 IN  /\ m_index_buffer_id' = id
                     /\ glBuffers' = glBuffers \cup Range(gen)
                     /\ glLastName' = LastName(gen)
                     /\ IF index_type \in SupportedIndexTypes
                        THEN /\ glTrace' = pre \o
                                  <<GLCall("glBindBuffer", 0, <<id>>, "GL_ELEMENT_ARRAY_BUFFER", 0),
                                    GLCall("glBufferData", len, <<>>, "GL_ELEMENT_ARRAY_BUFFER", 0)>>
                             /\ logged' = <<>>
                        ELSE /\ glTrace' = pre
                             /\ logged' = <<"Unsupported index type">>
            /\ m_index_type' = StoredIndexState(len, index_type).index_type
            /\ m_indicesCount' = StoredIndexState(len, index_type).indicesCount
            /\ UNCHANGED <<m_bound, m_allocated, m_vbo_ids, glReusesNames, hasData>>

\* the buffer names remove_vao hands to glDeleteBuffers
RemovedBuffers ==
    IF m_allocated
    THEN Range(m_vbo_ids) \cup (IF m_index_buffer_id # 0 THEN {m_index_buffer_id} ELSE {})
    ELSE {}

remove_vao ==
    /\ call' = [NoCall EXCEPT !.op = "remove_vao"]
    /\ raised' = "none"
    /\ logged' = <<>>
    /\ m_bound' = FALSE
    /\ glBuffers' = glBuffers \ RemovedBuffers
    /\ m_allocated' = FALSE
    /\ hasData' = FALSE
    /\ glTrace' =
         (IF m_bound THEN <<GLCall("glBindVertexArray", 0, <<>>, "0", 0)>> ELSE <<>>)
         \o (IF m_allocated /\ m_vbo_ids # <<>>
             THEN <<GLCall("glDeleteBuffers", Len(m_vbo_ids), m_vbo_ids, "", 0)>> ELSE <<>>)
         \o (IF m_allocated /\ m_index_buffer_id # 0
             THEN <<GLCall("glDeleteBuffers", 1, <<m_index_buffer_id>>, "", 0)>> ELSE <<>>)
         \o <<GLCall("glDeleteVertexArrays", 1, <<>>, "m_id", 0)>>
    /\ UNCHANGED <<m_vbo_ids, m_index_buffer_id, m_index_type, m_indicesCount,
                   glLastName, glReusesNames>>

VAONext ==
    \/ bind
    \/ unbind
    \/ \E s \in 0..MaxStart, a \in (0 - MaxAmount - 1)..MaxAmount : draw(s, a)
    \/ \E g \in BOOLEAN, i \in 0..(MaxBuffers - 1) : set_data(TRUE, g, i)
    \/ set_data(FALSE, FALSE, 0)
    \/ \E n \in 0..MaxIndices, t \in IndexTypes : set_indices(TRUE, n, t)
    \/ set_indices(FALSE, 0, "GL_UNSIGNED_SHORT")
    \/ remove_vao

-----------------------------------------------------------------------------
(* MainWindow mouse handling (the VertexArrayObject demos share this code) *)

MouseButtons == {"LeftButton", "RightButton"}
PosX == 0..MaxX
PosY == 0..MaxY

NoEvent == [type |-> "none", button |-> "NoButton", x |-> 0, y |-> 0]

WinInit ==
    /\ spinXFace = 0
    /\ spinYFace = 0
    /\ rotate = FALSE
    /\ translate = FALSE
    /\ origX = 0
    /\ origY = 0
    /\ origXPos = 0
    /\ origYPos = 0
    /\ modelPosX = 0
    /\ modelPosY = 0
    /\ buttons = {}
    /\ evt = NoEvent
    /\ updateRequested = FALSE

\* the conversion as it would be with floor division
HalfToInt_Floor(d) == d \div 2

\* int(0.5 * d): Python's int() truncates toward zero
HalfToInt(d) == IF d >= 0 THEN d \div 2 ELSE 0 - ((0 - d) \div 2)

Abs(n) == IF n >= 0 THEN n ELSE 0 - n

\* how far the model has been turned and moved (bounds the state space)
Travel(sx, sy, mx, my) == Abs(sx) + Abs(sy) + Abs(mx) + Abs(my)

\* the rotate branch of mouseMoveEvent is taken
RotateBranch == rotate /\ buttons = {"LeftButton"}

\* the translate test as it would be if other held buttons were ignored
TranslateBranch_RightHeld == translate /\ "RightButton" \in buttons

\* the translate branch of mouseMoveEvent is taken
TranslateBranch == translate /\ buttons = {"RightButton"}

\* evt keeps the position only when the handler reads event.position(),
\* which it does inside the two branches
mouseMoveEvent(x, y) ==
    /\ evt' = IF RotateBranch \/ TranslateBranch
              THEN [type |-> "move", button |-> "NoButton", x |-> x, y |-> y]
              ELSE [type |-> "move", button |-> "NoButton", x |-> 0, y |-> 0]
    /\ UNCHANGED <<buttons, rotate, translate>>
    /\ IF RotateBranch
       THEN LET diffx == x - origX
                diffy == y - origY
            IN  /\ spinXFace' = spinXFace + HalfToInt(diffy)
                /\ spinYFace' = spinYFace + HalfToInt(diffx)
                /\ Travel(spinXFace', spinYFace', modelPosX, modelPosY) <= MaxTravel
                /\ origX' = x
                /\ origY' = y
                /\ updateRequested' = TRUE
                /\ UNCHANGED <<origXPos, origYPos, modelPosX, modelPosY>>
       ELSE IF TranslateBranch
       THEN LET diffX == x - origXPos
                diffY == y - origYPos
            IN  /\ origXPos' = x
                /\ origYPos' = y
                /\ modelPosX' = modelPosX + diffX
                /\ modelPosY' = modelPosY - diffY
                /\ Travel(spinXFace, spinYFace, modelPosX', modelPosY') <= MaxTravel
                /\ updateRequested' = TRUE
                /\ UNCHANGED <<spinXFace, spinYFace, origX, origY>>
       ELSE /\ updateRequested' = FALSE
            /\ UNCHANGED <<spinXFace, spinYFace, origX, origY, origXPos,
                           origYPos, modelPosX, modelPosY>>

\* a button that is up goes down at (x, y)
mousePressEvent(b, x, y) ==
    /\ b \notin buttons
    /\ buttons' = buttons \cup {b}
    /\ evt' = [type |-> "press", button |-> b, x |-> x, y |-> y]
    /\ updateRequested' = FALSE
    /\ IF b = "LeftButton"
       THEN /\ origX' = x
            /\ origY' = y
            /\ rotate' = TRUE
            /\ UNCHANGED <<origXPos, origYPos, translate>>
       ELSE IF b = "RightButton"
       THEN /\ origXPos' = x
            /\ origYPos' = y
            /\ translate' = TRUE
            /\ UNCHANGED <<origX, origY, rotate>>
       ELSE UNCHANGED <<origX, origY, origXPos, origYPos, rotate, translate>>
    /\ UNCHANGED <<spinXFace, spinYFace, modelPosX, modelPosY>>

\* the release handler as it would be if any release ended both drags
mouseReleaseEvent_ClearsBoth(b) ==
    /\ b \in buttons
    /\ buttons' = buttons \ {b}
    /\ evt' = [type |-> "release", button |-> b, x |-> 0, y |-> 0]
    /\ updateRequested' = FALSE
    /\ rotate' = FALSE
    /\ translate' = FALSE
    /\ UNCHANGED <<spinXFace, spinYFace, origX, origY, origXPos, origYPos,
                   modelPosX, modelPosY>>

\* a button that is down goes up (the handler reads no position)
mouseReleaseEvent(b) ==
    /\ b \in buttons
    /\ buttons' = buttons \ {b}
    /\ evt' = [type |-> "release", button |-> b, x |-> 0, y |-> 0]
    /\ updateRequested' = FALSE
    /\ IF b = "LeftButton"
       THEN rotate' = FALSE /\ UNCHANGED translate
       ELSE IF b = "RightButton"
       THEN translate' = FALSE /\ UNCHANGED rotate
       ELSE UNCHANGED <<rotate, translate>>
    /\ UNCHANGED <<spinXFace, spinYFace, origX, origY, origXPos, origYPos,
                   modelPosX, modelPosY>>

WinNext ==
    \/ \E x \in PosX, y \in PosY : mouseMoveEvent(x, y)
    \/ \E b \in MouseButtons, x \in PosX, y \in PosY : mousePressEvent(b, x, y)
    \/ \E b \in MouseButtons : mouseReleaseEvent(b)

-----------------------------------------------------------------------------
(* initializeGL: loading the demo's shader *)

ShaderDemos == {"PBRTexture", "BoidShaded", "ExtendedVAOFactory",
                "SimpleIndexVAOFactory", "Sphere"}

NewWindow ==
    [phase |-> "constructed", shaderLoaded |-> FALSE, reported |-> "none",
     closeRequested |-> FALSE, shaderInUse |-> FALSE]

ShaderInit == window = [d \in ShaderDemos |-> NewWindow]

\* how a demo reports that its shader did not load
ErrorChannel(d) ==
    IF d \in {"PBRTexture", "ExtendedVAOFactory"} THEN "logging.error" ELSE "print"

\* the failure branch as it would be without self.close()
LoadFailed_NoClose(d, w) == [w EXCEPT !.reported = ErrorChannel(d)]

\* the body of "if not ShaderLib.load_shader(...):"
LoadFailed(d, w) ==
    [w EXCEPT !.reported = ErrorChannel(d), !.closeRequested = TRUE]

\* initializeGL runs once per window; loaded is the result of load_shader
initializeGL(d, loaded) ==
    /\ window[d].phase = "constructed"
    /\ LET w0 == [window[d] EXCEPT !.phase = "initialized", !.shaderLoaded = loaded]
           w1 == IF ~loaded THEN LoadFailed(d, w0) ELSE w0
       IN  window' = [window EXCEPT ![d] = [w1 EXCEPT !.shaderInUse = TRUE]]

ShaderNext == \E d \in ShaderDemos, loaded \in BOOLEAN : initializeGL(d, loaded)

-----------------------------------------------------------------------------
(* The ExtendedVAOFactory demo window *)

\* len(indices) in build_vao
NumIndices == 60

Keys == {"Key_Escape", "Key_W", "Key_S", "Key_Space", "Key_Other"}
Demo == "ExtendedVAOFactory"

\* MainWindow.__init__; a fresh GL context rasterises polygons filled
DemoInit ==
    /\ index = 0
    /\ polygonMode = "GL_FILL"
    /\ pc = "constructed"
    /\ handler = "none"
    /\ selectedMode = "none"

\* the wrap test as it would be without the division
IndexLimit_NoDivide == NumIndices

\* the value at which timerEvent wraps the index
IndexLimit == NumIndices \div 3

\* the step as it would be if the index advanced by one
NextIndex_StepOne(i) == IF i + 1 >= IndexLimit THEN 0 ELSE i + 1

\* the index timerEvent leaves behind
NextIndex(i) == IF i + 3 >= IndexLimit THEN 0 ELSE i + 3

\* initializeGL up to "with self.vao:" in build_vao
initializeGL_enter ==
    /\ pc = "constructed"
    /\ bind
    /\ pc' = "l141"
    /\ handler' = "initializeGL"
    /\ UNCHANGED <<index, polygonMode, selectedMode, winVars, window>>

\* build_vao: the vertex buffer, then the colour buffer
build_vao_set_data ==
    /\ pc \in {"l141", "l145"}
    /\ set_data(TRUE, FALSE, 0)
    /\ pc' = IF pc = "l141" THEN "l145" ELSE "l148"
    /\ UNCHANGED <<index, polygonMode, handler, selectedMode, winVars, window>>

\* build_vao: set_indices, followed by set_num_indices with the same length
build_vao_set_indices ==
    /\ pc = "l148"
    /\ set_indices(TRUE, NumIndices, "GL_UNSIGNED_SHORT")
    /\ pc' = "l149"
    /\ UNCHANGED <<index, polygonMode, handler, selectedMode, winVars, window>>

\* build_vao: the end of "with self.vao:"
build_vao_exit ==
    /\ pc = "l149"
    /\ unbind
    /\ pc' = "l79"
    /\ UNCHANGED <<index, polygonMode, handler, selectedMode, winVars, window>>

\* the rest of initializeGL: the shader is loaded (or not) and the timer started
initializeGL_exit(loaded) ==
    /\ pc = "l79"
    /\ initializeGL(Demo, loaded)
    /\ pc' = "idle"
    /\ UNCHANGED <<index, polygonMode, handler, selectedMode, winVars, vaoVars>>

\* the timer started by initializeGL fires
timerEvent ==
    /\ pc = "idle"
    /\ index' = NextIndex(index)
    /\ updateRequested' = TRUE
    /\ handler' = "timerEvent"
    /\ UNCHANGED <<polygonMode, pc, selectedMode, window, vaoVars,
                   spinXFace, spinYFace, rotate, translate, origX, origY,
                   origXPos, origYPos, modelPosX, modelPosY, buttons, evt>>

\* a key goes down in the open window
keyPressEvent(key) ==
    /\ pc = "idle"
    /\ ~window[Demo].closeRequested
    /\ window' = IF key = "Key_Escape"
                 THEN [window EXCEPT ![Demo].closeRequested = TRUE]
                 ELSE window
    /\ polygonMode' = CASE key = "Key_W" -> "GL_LINE"
                        [] key = "Key_S" -> "GL_FILL"
                        [] OTHER -> polygonMode
    /\ selectedMode' = CASE key = "Key_W" -> "GL_LINE"
                         [] key = "Key_S" -> "GL_FILL"
                         [] OTHER -> selectedMode
    /\ IF key = "Key_Space"
       THEN spinXFace' = 0 /\ spinYFace' = 0 /\ modelPosX' = 0 /\ modelPosY' = 0
       ELSE UNCHANGED <<spinXFace, spinYFace, modelPosX, modelPosY>>
    /\ updateRequested' = TRUE
    /\ handler' = "keyPressEvent"
    /\ UNCHANGED <<index, pc, vaoVars, rotate, translate, origX, origY,
                   origXPos, origYPos, buttons, evt>>

\* paintGL up to "with self.vao:"; Qt calls it after update() or an expose
paintGL_enter ==
    /\ pc = "idle"
    /\ ~window[Demo].closeRequested
    /\ bind
    /\ pc' = "l175"
    /\ handler' = "paintGL"
    /\ updateRequested' = FALSE
    /\ UNCHANGED <<index, polygonMode, selectedMode, window,
                   spinXFace, spinYFace, rotate, translate, origX, origY,
                   origXPos, origYPos, modelPosX, modelPosY, buttons, evt>>

\* paintGL: self.vao.draw(0, self.index * 3)
paintGL_draw_upto ==
    /\ pc = "l175"
    /\ draw(0, index * 3)
    /\ pc' = "l179"
    /\ UNCHANGED <<index, polygonMode, handler, selectedMode, winVars, window>>

\* paintGL: glPolygonMode(GL_FILL); self.vao.draw()
paintGL_draw_fill ==
    /\ pc = "l179"
    /\ polygonMode' = "GL_FILL"
    /\ draw(0, -1)
    /\ pc' = "l184"
    /\ UNCHANGED <<index, handler, selectedMode, winVars, window>>

\* paintGL: self.vao.draw(self.index * 3, 3)
paintGL_draw_three ==
    /\ pc = "l184"
    /\ draw(index * 3, 3)
    /\ pc' = "l185"
    /\ UNCHANGED <<index, polygonMode, handler, selectedMode, winVars, window>>

\* paintGL: glPolygonMode(GL_LINE); self.vao.draw()
paintGL_draw_line ==
    /\ pc = "l185"
    /\ polygonMode' = "GL_LINE"
    /\ draw(0, -1)
    /\ pc' = "l187"
    /\ UNCHANGED <<index, handler, selectedMode, winVars, window>>

\* paintGL: glPolygonMode(GL_FILL) and the end of "with self.vao:"
paintGL_exit ==
    /\ pc = "l187"
    /\ polygonMode' = "GL_FILL"
    /\ unbind
    /\ pc' = "idle"
    /\ UNCHANGED <<index, handler, selectedMode, winVars, window>>

\* the statements of a handler that has begun
DemoStep ==
    \/ build_vao_set_data
    \/ build_vao_set_indices
    \/ build_vao_exit
    \/ \E loaded \in BOOLEAN : initializeGL_exit(loaded)
    \/ paintGL_draw_upto
    \/ paintGL_draw_fill
    \/ paintGL_draw_three
    \/ paintGL_draw_line
    \/ paintGL_exit

\* handlers run one at a time on the Qt event loop, each to its end
DemoNext ==
    \/ initializeGL_enter
    \/ timerEvent
    \/ \E key \in Keys : keyPressEvent(key)
    \/ paintGL_enter
    \/ DemoStep

-----------------------------------------------------------------------------
(* Specifications *)

Init == VAOInit /\ WinInit /\ ShaderInit /\ DemoInit

\* the VAO, under either kind of driver
SpecVAO == Init /\ [][VAONext /\ UNCHANGED <<winVars, window, demoVars>>]_vars

\* a demo window receiving mouse events (no VAO operation takes place)
SpecMouse ==
    Init /\ glReusesNames = TRUE /\ [][WinNext /\ UNCHANGED <<vaoVars, window, demoVars>>]_vars

\* the demo windows running initializeGL
SpecShader ==
    Init /\ glReusesNames = TRUE /\ [][ShaderNext /\ UNCHANGED <<vaoVars, winVars, demoVars>>]_vars

\* the ExtendedVAOFactory demo from construction on, under either kind of driver
SpecDemo == Init /\ [][DemoNext]_vars

\* the same, where a handler that has begun runs to its end
SpecDemoLive == SpecDemo /\ WF_vars(DemoStep)

-----------------------------------------------------------------------------
(* Properties *)

\* the glDrawElements calls issued by the last operation
DrawCalls == { k \in DOMAIN glTrace : glTrace[k].fn = "glDrawElements" }

\* the glGenBuffers calls issued by the last operation
GenCalls == { k \in DOMAIN glTrace : glTrace[k].fn = "glGenBuffers" }

\* the element count the last draw call was asked for (draw leaves
\* m_indicesCount alone, so the value after the call is the value before it)
AskedCount ==
    IF call.amount = -1 THEN m_indicesCount - call.start_index ELSE call.amount

\* C1: draw on a bound, allocated VAO with a positive element count passes
\* glDrawElements the byte offset start_index * 4 for GL_UNSIGNED_INT,
\* start_index * 2 for GL_UNSIGNED_SHORT, start_index * 1 for
\* GL_UNSIGNED_BYTE, and issues no draw call for any other index type.
C1_DrawByteOffset ==
    (call.op = "draw" /\ m_bound /\ m_allocated /\ AskedCount > 0) =>
        IF m_index_type = "GL_UNSIGNED_INT"
        THEN /\ Len(glTrace) = 1 /\ DrawCalls = {1}
             /\ glTrace[1].typ = "GL_UNSIGNED_INT"
             /\ glTrace[1].offset = call.start_index * 4
        ELSE IF m_index_type = "GL_UNSIGNED_SHORT"
        THEN /\ Len(glTrace) = 1 /\ DrawCalls = {1}
             /\ glTrace[1].typ = "GL_UNSIGNED_SHORT"
             /\ glTrace[1].offset = call.start_index * 2
        ELSE IF m_index_type = "GL_UNSIGNED_BYTE"
        THEN /\ Len(glTrace) = 1 /\ DrawCalls = {1}
             /\ glTrace[1].typ = "GL_UNSIGNED_BYTE"
             /\ glTrace[1].offset = call.start_index
        ELSE DrawCalls = {}

\* a draw of 16-bit indices from start_index 1 was issued at byte offset 2
C1_Witness ==
    /\ call.op = "draw" /\ call.start_index = 1
    /\ m_bound /\ m_allocated /\ m_index_type = "GL_UNSIGNED_SHORT"
    /\ DrawCalls = {1} /\ glTrace[1].offset = 2

\* C2: draw on a bound, allocated VAO draws m_indicesCount - start_index
\* elements when amount is -1 and exactly amount elements otherwise, and
\* issues no glDrawElements call when that count is <= 0.
C2_DrawElementCount ==
    (call.op = "draw" /\ m_bound /\ m_allocated) =>
        /\ \A k \in DrawCalls :
             glTrace[k].count = (IF call.amount = -1
                                 THEN m_indicesCount - call.start_index
                                 ELSE call.amount)
        /\ AskedCount <= 0 => DrawCalls = {}
        /\ (AskedCount > 0 /\ m_index_type \in SupportedIndexTypes)
               => Cardinality(DrawCalls) = 1

\* draw(1, -1) over two indices drew one element
C2_Witness ==
    /\ call.op = "draw" /\ call.amount = -1 /\ call.start_index = 1
    /\ m_indicesCount = 2 /\ DrawCalls = {1} /\ glTrace[1].count = 1

\* the last operation uploaded vertex data into buffer id
UploadsInto(trace, id) ==
    \E k \in DOMAIN trace :
        /\ trace[k].fn = "glBindBuffer" /\ trace[k].typ = "GL_ARRAY_BUFFER"
        /\ trace[k].ids = <<id>>
        /\ k + 1 \in DOMAIN trace
        /\ trace[k + 1].fn = "glBufferData" /\ trace[k + 1].typ = "GL_ARRAY_BUFFER"

\* C3: on a bound VAO, set_data(data, index=i) with a VertexData argument, i
\* defaulting to the current number of buffers, leaves max(old_count, i+1)
\* buffer ids, keeps every previously held id at its position, uploads into
\* the id at position i and sets m_allocated; a call without an index
\* therefore appends exactly one buffer, after those of the earlier calls.
C3_SetDataBuffers ==
    [][ (call'.op = "set_data" /\ call'.isVertexData /\ m_bound) =>
          LET old == Len(m_vbo_ids)
              i   == call'.index
          IN  /\ ~call'.indexGiven => i = old
              /\ Len(m_vbo_ids') = (IF old >= i + 1 THEN old ELSE i + 1)
              /\ \A k \in 1..old : m_vbo_ids'[k] = m_vbo_ids[k]
              /\ \A k \in (old + 1)..Len(m_vbo_ids') : m_vbo_ids'[k] \notin glBuffers
              /\ UploadsInto(glTrace', m_vbo_ids'[i + 1])
              /\ m_allocated'
              /\ ~call'.indexGiven => Len(m_vbo_ids') = old + 1 ]_vars

\* a second set_data without an index left two buffers and uploaded into the
\* second
C3_Witness ==
    /\ call.op = "set_data" /\ call.isVertexData /\ ~call.indexGiven
    /\ m_bound /\ m_allocated /\ Len(m_vbo_ids) = 2 /\ call.index = 1
    /\ UploadsInto(glTrace, m_vbo_ids[2])

\* C4: m_index_buffer_id is 0 until the first set_indices call on a bound VAO
\* with a list argument; that call generates exactly one buffer id; every
\* later set_indices call keeps the id and generates none.
C4_IndexBufferUnique ==
    [][ /\ (m_index_buffer_id' # m_index_buffer_id) =>
              (call'.op = "set_indices" /\ call'.isList /\ m_bound
               /\ m_index_buffer_id = 0)
        /\ (call'.op = "set_indices" /\ call'.isList /\ m_bound
            /\ m_index_buffer_id = 0) =>
              /\ Cardinality(GenCalls') = 1
              /\ \A k \in GenCalls' : glTrace'[k].count = 1
                                      /\ glTrace'[k].ids = <<m_index_buffer_id'>>
              /\ m_index_buffer_id' # 0
              /\ m_index_buffer_id' \notin glBuffers
        /\ (call'.op = "set_indices" /\ m_index_buffer_id # 0) =>
              /\ m_index_buffer_id' = m_index_buffer_id
              /\ GenCalls' = {}
              /\ glBuffers' = glBuffers
              /\ \A k \in DOMAIN glTrace' :
                    glTrace'[k].fn = "glBindBuffer" => glTrace'[k].ids = <<m_index_buffer_id>>
      ]_vars

\* a set_indices call uploaded into the index buffer an earlier call generated
C4_Witness ==
    /\ call.op = "set_indices" /\ call.isList /\ m_bound
    /\ m_index_buffer_id # 0 /\ GenCalls = {}
    /\ \E k \in DOMAIN glTrace : glTrace[k].fn = "glBindBuffer"
                                 /\ glTrace[k].ids = <<m_index_buffer_id>>

\* C5: in every demo that loads its own shader, when load_shader returns
\* false during initializeGL the program reports an error and requests that
\* the window be closed.
C5_ShaderFailureCloses ==
    \A d \in ShaderDemos :
        (window[d].phase = "initialized" /\ ~window[d].shaderLoaded) =>
            (window[d].reported # "none" /\ window[d].closeRequested)

\* every demo has run initializeGL with a shader that did not load
C5_Witness ==
    \A d \in ShaderDemos :
        /\ window[d].phase = "initialized" /\ ~window[d].shaderLoaded
        /\ window[d].closeRequested

\* half of d, rounded toward zero
TowardZeroHalf(d) ==
    CHOOSE h \in (0 - (MaxX + MaxY))..(MaxX + MaxY) :
        IF d >= 0 THEN 2 * h <= d /\ d < 2 * h + 2
                  ELSE 2 * h >= d /\ d > 2 * h - 2

\* C6: while the left button alone is held after a left press, a
\* mouseMoveEvent at (x, y) adds int(0.5*(y - origY)) to spinXFace and
\* int(0.5*(x - origX)) to spinYFace, truncating toward zero, sets the drag
\* origin to (x, y) and requests a redraw; a move of a single pixel changes
\* the origin but not the spin.
C6_RotateDrag ==
    [][ (evt'.type = "move" /\ buttons = {"LeftButton"}) =>
          /\ spinXFace' = spinXFace + TowardZeroHalf(evt'.y - origY)
          /\ spinYFace' = spinYFace + TowardZeroHalf(evt'.x - origX)
          /\ origX' = evt'.x
          /\ origY' = evt'.y
          /\ updateRequested'
          /\ ( /\ evt'.x - origX \in {-1, 0, 1}
               /\ evt'.y - origY \in {-1, 0, 1} )
             => (spinXFace' = spinXFace /\ spinYFace' = spinYFace) ]_vars

\* a left drag has turned the model by -1 about x and the rotate origin is
\* where the mouse is
C6_Witness ==
    /\ evt.type = "move" /\ buttons = {"LeftButton"} /\ rotate
    /\ spinXFace = -1 /\ origX = evt.x /\ origY = evt.y /\ updateRequested

\* C7: draw issues a glDrawElements call only while the VAO is bound and
\* allocated; none before the first successful set_data and none after
\* remove_vao until set_data succeeds again.
C7_DrawOnlyBoundAllocated ==
    (call.op = "draw" /\ DrawCalls # {}) => (m_bound /\ m_allocated /\ hasData)

\* a draw call was issued
C7_Witness ==
    call.op = "draw" /\ DrawCalls # {} /\ m_bound /\ m_allocated /\ hasData

\* C8: set_data with a VertexData argument on an unbound VAO logs an error
\* and leaves the VAO unchanged: no buffer id generated, m_vbo_ids and
\* m_allocated as before.
C8_SetDataUnbound ==
    [][ (call'.op = "set_data" /\ call'.isVertexData /\ ~m_bound) =>
          /\ logged' # <<>>
          /\ glTrace' = <<>>
          /\ UNCHANGED <<m_bound, m_allocated, m_vbo_ids, m_index_buffer_id,
                         m_index_type, m_indicesCount, glBuffers>> ]_vars

\* set_data was refused on an unbound VAO that already held a buffer
C8_Witness ==
    /\ call.op = "set_data" /\ call.isVertexData /\ ~m_bound
    /\ logged # <<>> /\ Len(m_vbo_ids) > 0

\* C9: a set_indices call that is rejected, because the VAO is unbound or
\* because index_type is not GL_UNSIGNED_INT, GL_UNSIGNED_SHORT or
\* GL_UNSIGNED_BYTE, uploads nothing and leaves m_index_buffer_id,
\* m_index_type and m_indicesCount as they were.
C9_RejectedSetIndicesUnchanged ==
    [][ (/\ call'.op = "set_indices" /\ call'.isList
         /\ (~m_bound \/ call'.index_type \notin SupportedIndexTypes)) =>
          /\ \A k \in DOMAIN glTrace' : glTrace'[k].fn # "glBufferData"
          /\ UNCHANGED <<m_index_buffer_id, m_index_type, m_indicesCount>> ]_vars

\* C10: remove_vao deletes every buffer id the VAO generated, attribute
\* buffers and index buffer, together with the vertex array, and leaves the
\* VAO unbound with m_allocated false.
C10_RemoveDeletesAll ==
    call.op = "remove_vao" =>
        /\ glBuffers = {}
        /\ \E k \in DOMAIN glTrace : glTrace[k].fn = "glDeleteVertexArrays"
        /\ ~m_bound
        /\ ~m_allocated

\* C11: in the ExtendedVAOFactory demo, whatever the order of timer events
\* and repaints, each draw(start_index, amount) issued by paintGL stays
\* within the index buffer: start_index >= 0 and start_index + element
\* count <= num_indices (60), both for the count draw computes and for the
\* count handed to glDrawElements.
C11_PaintDrawsInRange ==
    (handler = "paintGL" /\ call.op = "draw") =>
        /\ call.start_index >= 0
        /\ call.start_index + DrawCount(call.start_index, call.amount) <= NumIndices
        /\ \A k \in DrawCalls :
              /\ glTrace[k].count >= 1
              /\ call.start_index + glTrace[k].count <= 60

\* paintGL has drawn the last triangle the index reaches: draw(54, 3)
C11_Witness ==
    /\ handler = "paintGL" /\ call.op = "draw"
    /\ index = 18 /\ call.start_index = 54 /\ call.amount = 3
    /\ DrawCalls # {}

\* C12: in the ExtendedVAOFactory demo each timerEvent updates the drawing
\* index to index + 3, wrapping to 0 as soon as the new value is >=
\* num_indices // 3; so index is always a multiple of 3 in
\* [0, num_indices // 3), and if timer events keep arriving index returns
\* to 0 infinitely often.
C12_TimerIndexCycle ==
    /\ [][timerEvent =>
            index' = (IF index + 3 >= 60 \div 3 THEN 0 ELSE index + 3)]_vars
    /\ [](index % 3 = 0 /\ index >= 0 /\ index < 60 \div 3)
    /\ ([]<><<timerEvent>>_vars) => []<>(index = 0)

\* a timer event has just wrapped the index back to 0
C12_Witness ==
    /\ handler = "timerEvent" /\ index = 0 /\ updateRequested
    /\ pc = "idle"

\* C13: in the ExtendedVAOFactory demo, pressing W selects GL_LINE and
\* pressing S selects GL_FILL, and the mode last selected is the polygon mode
\* in force at the start of every later paintGL until the other key is
\* pressed.
C13_SelectedModeAtPaint ==
    /\ [][ /\ keyPressEvent("Key_W") => polygonMode' = "GL_LINE"
           /\ keyPressEvent("Key_S") => polygonMode' = "GL_FILL" ]_vars
    /\ [][(paintGL_enter /\ selectedMode # "none") =>
              polygonMode = selectedMode]_vars

\* C14: for any sequence of mouse press and release events, rotate is true
\* exactly when the most recent left-button press has not been followed by a
\* left-button release, translate likewise for the right button, and a press
\* records the press position as the drag origin of its mode (and leaves the
\* other mode's origin alone).
C14_PressReleaseFlags ==
    [][ /\ rotate' <=> ("LeftButton" \in buttons')
        /\ translate' <=> ("RightButton" \in buttons')
        /\ (evt'.type = "press" /\ evt'.button = "LeftButton") =>
              (origX' = evt'.x /\ origY' = evt'.y
               /\ origXPos' = origXPos /\ origYPos' = origYPos)
        /\ (evt'.type = "press" /\ evt'.button = "RightButton") =>
              (origXPos' = evt'.x /\ origYPos' = evt'.y
               /\ origX' = origX /\ origY' = origY)
        /\ evt'.type = "release" =>
              UNCHANGED <<origX, origY, origXPos, origYPos>> ]_vars

\* the right button was released while the left one, pressed at (1, 2), is
\* still down: rotate is set, translate is not
C14_Witness ==
    /\ evt.type = "release" /\ evt.button = "RightButton"
    /\ buttons = {"LeftButton"} /\ rotate /\ ~translate
    /\ origX = 1 /\ origY = 2

\* C15: a mouseMoveEvent changes spinXFace/spinYFace only when rotate is set
\* and exactly the left button is held, changes modelPos.x/modelPos.y only
\* when translate is set and exactly the right button is held, and with both
\* buttons held, or neither flag set, leaves spin, modelPos and both drag
\* origins unchanged and requests no redraw.
C15_MoveOneMode ==
    [][ evt'.type = "move" =>
          /\ (spinXFace' # spinXFace \/ spinYFace' # spinYFace) =>
                (rotate /\ buttons = {"LeftButton"})
          /\ (modelPosX' # modelPosX \/ modelPosY' # modelPosY) =>
                (translate /\ buttons = {"RightButton"})
          /\ (rotate /\ buttons = {"LeftButton"}) =>
                UNCHANGED <<modelPosX, modelPosY, origXPos, origYPos>>
          /\ (translate /\ buttons = {"RightButton"}) =>
                UNCHANGED <<spinXFace, spinYFace, origX, origY>>
          /\ (buttons = {"LeftButton", "RightButton"} \/ (~rotate /\ ~translate)) =>
                /\ UNCHANGED <<spinXFace, spinYFace, modelPosX, modelPosY,
                               origX, origY, origXPos, origYPos>>
                /\ ~updateRequested' ]_vars

\* the mouse moved with both buttons down, after a right drag had moved the
\* model: nothing was redrawn and the origins stay where the drags left them
C15_Witness ==
    /\ evt.type = "move" /\ buttons = {"LeftButton", "RightButton"}
    /\ rotate /\ translate /\ ~updateRequested
    /\ modelPosX # 0

====
